---- MODULE Spec2Model ----
(***************************************************************************)
(* The compile-and-execute pipeline of the C++ runner API: the handler     *)
(* run_code of main.py, the scratch directory it works in, and the         *)
(* subprocesses it starts.                                                 *)
(***************************************************************************)
EXTENDS Naturals, Sequences, FiniteSets, TLC

\* Number of handler coroutines the server may hold at once.
NInv == 2
\* Number of environment events (I/O errors, spawn errors, failed deletes,
\* compilers outliving their shell) injected in one behaviour.
MaxFaults == 1

Inv == 1..NInv

\* Optional[...] values: None is the empty tuple, a present value a 1-tuple.
None == <<>>
Some(x) == <<x>>

---------------------------------------------------------------------------
\* The scratch directory and the three paths of an invocation.

TEMP_DIR == "temp"

\* The values str(uuid.uuid4())[:8] may take (8 hex digits).
Tokens == {"0a1b2c3d", "9f8e7d6c"}

cpp_file(id) == TEMP_DIR \o "/" \o "code_" \o id \o ".cpp"
exe_file(id) == TEMP_DIR \o "/" \o "code_" \o id
input_file(id) == TEMP_DIR \o "/" \o "input_" \o id \o ".txt"

\* The list the finally block iterates over.
CleanupList(id) == <<cpp_file(id), exe_file(id), input_file(id)>>

Paths == UNION {{cpp_file(t), exe_file(t), input_file(t)} : t \in Tokens}

---------------------------------------------------------------------------
\* Requests.

\* Timeout of the compile subprocess, in seconds.
CompileTimeout == 30

DefaultFlags == "-O2 -std=c++17"

CodeRequest(code, input, timeout) ==
    [code |-> code, input |-> input, timeout |-> timeout,
     compiler_flags |-> DefaultFlags]

\* A request that sets compiler_flags itself.
WithFlags(r, flags) == [r EXCEPT !.compiler_flags = flags]

\* The request bodies served.  A source text is named by what it does.
Requests ==
    {CodeRequest(c, "", Some(10)) :
        c \in {"warn", "echo", "crash", "quiet", "syntax", "binsrc",
               "slow", "loop", "binary", "flood"}}
    \cup {CodeRequest("echo", "5 10", Some(10)),
          CodeRequest("loop", "", None)}
    \cup {WithFlags(CodeRequest("warn", "", Some(10)),
                    "-fsyntax-only; echo pwned")}

---------------------------------------------------------------------------
\* The environment: what g++ and the compiled programs do.  A captured
\* stream is a sequence of byte chunks.

InvalidByte == "\\xff"

\* g++ on a source text held in the file `name`: seconds taken, exit
\* status, diagnostics.  A diagnostic begins with the name of the file as
\* the command line gives it.
Gpp(src, name) ==
    CASE src = "syntax" -> [secs |-> 1, returncode |-> 1, stdout |-> <<>>,
                            stderr |-> <<name \o ":1: error: expected ';'",
                                         "\n">>]
      [] src = "binsrc" -> [secs |-> 1, returncode |-> 1, stdout |-> <<>>,
                            stderr |-> <<name \o ":1: error: stray ",
                                         InvalidByte>>]
      [] src = "slow"   -> [secs |-> 40, returncode |-> 0, stdout |-> <<>>,
                            stderr |-> <<>>]
      [] OTHER          -> [secs |-> 1, returncode |-> 0, stdout |-> <<>>,
                            stderr |-> <<>>]

\* /bin/sh -c on "g++ <cpp> -o <exe> <flags>": the options g++ receives and
\* the commands the shell runs after it, by the shell's reading of the flags
\* (";" ends a command).
Sh(flags) ==
    CASE flags = "-fsyntax-only; echo pwned" ->
                [options |-> {"-fsyntax-only"}, then |-> <<"echo">>]
      [] OTHER ->
                [options |-> {"-O2", "-std=c++17"}, then |-> <<>>]

\* Whether g++ with these options writes the file named by -o.
Links(options) == "-fsyntax-only" \notin options

\* What the shell hands back: the status and streams of g++ when it is the
\* last command, else the streams of both and the status of the echo.
Shell(g, then) ==
    IF then = <<>> THEN g
    ELSE [g EXCEPT !.returncode = 0, !.stdout = @ \o <<"pwned", "\n">>]

\* Number of chunks the program "flood" writes to its standard output.
FloodLen == 3

RECURSIVE Chunks(_)
Chunks(n) == IF n = 0 THEN <<>> ELSE <<"x">> \o Chunks(n - 1)

\* The program compiled from a source text, run on a standard input.
Program(src, stdin) ==
    CASE src = "warn"   -> [halts |-> TRUE, secs |-> 1, returncode |-> 0,
                            stdout |-> <<"ok", "\r\n">>,
                            stderr |-> <<"warning">>]
      [] src = "echo"   -> [halts |-> TRUE, secs |-> 1, returncode |-> 0,
                            stdout |-> IF stdin = "" THEN <<>> ELSE <<stdin>>,
                            stderr |-> <<>>]
      [] src = "crash"  -> [halts |-> TRUE, secs |-> 1, returncode |-> 139,
                            stdout |-> <<"partial">>,
                            stderr |-> <<"boom">>]
      [] src = "quiet"  -> [halts |-> TRUE, secs |-> 1, returncode |-> 1,
                            stdout |-> <<>>, stderr |-> <<>>]
      [] src = "loop"   -> [halts |-> FALSE, secs |-> 0, returncode |-> 0,
                            stdout |-> <<"partial">>, stderr |-> <<>>]
      [] src = "binary" -> [halts |-> TRUE, secs |-> 1, returncode |-> 0,
                            stdout |-> <<"ok">>,
                            stderr |-> <<InvalidByte>>]
      [] src = "flood"  -> [halts |-> TRUE, secs |-> 1, returncode |-> 0,
                            stdout |-> Chunks(FloodLen), stderr |-> <<>>]
      [] OTHER          -> [halts |-> TRUE, secs |-> 1, returncode |-> 0,
                            stdout |-> <<src>>, stderr |-> <<>>]

---------------------------------------------------------------------------
\* subprocess.run(..., capture_output=True, text=True): the captured bytes
\* are decoded strictly and "\r\n" and "\r" become "\n".

Decodable(bytes) == \A k \in 1..Len(bytes) : bytes[k] # InvalidByte

TranslateNewline(chunk) == IF chunk \in {"\r\n", "\r"} THEN "\n" ELSE chunk

RECURSIVE Text(_)
Text(bytes) ==
    IF bytes = <<>> THEN ""
    ELSE TranslateNewline(Head(bytes)) \o Text(Tail(bytes))

CompletedProcess(p) ==
    [returncode |-> p.returncode, stdout |-> Text(p.stdout),
     stderr |-> Text(p.stderr)]

\* Whether a wait of `timeout` seconds (None: unbounded) on a process that
\* needs `secs` seconds, or never halts, expires.
Expires(timeout, halts, secs) ==
    timeout # None /\ (~halts \/ secs > timeout[1])

---------------------------------------------------------------------------
\* Exceptions and the responses of the handler.

Exc(type, msg) == [type |-> type, msg |-> msg]

TimeoutExpired == Exc("TimeoutExpired", "timed out")
OpenError(path) ==
    Exc("OSError", "[Errno 13] Permission denied: '" \o path \o "'")
NotFoundError(path) ==
    Exc("OSError", "[Errno 2] No such file or directory: '" \o path \o "'")
WriteError == Exc("OSError", "[Errno 28] No space left on device")
SpawnError == Exc("OSError", "[Errno 12] Cannot allocate memory")
DecodeError ==
    Exc("UnicodeDecodeError", "'utf-8' codec can't decode byte 0xff")

\* The exception types that are subclasses of Exception.
ExceptionSubclasses == {"TimeoutExpired", "OSError", "UnicodeDecodeError"}

CodeResponse(success, output, error, compilation_time, execution_time) ==
    [success |-> success, output |-> output, error |-> error,
     compilation_time |-> compilation_time,
     execution_time |-> execution_time, memory_used |-> None]

CompilationErrorResponse(compile_result, compilation_time) ==
    CodeResponse(FALSE, None,
                 Some("Compilation Error:\n" \o compile_result.stderr),
                 Some(compilation_time), None)

\* Variant: the failure after a non-zero exit also carries what the program
\* wrote to its standard output.
RuntimeErrorWithOutput(exec_result, compilation_time, execution_time) ==
    CodeResponse(FALSE, Some(exec_result.stdout),
                 Some("Runtime Error:\n" \o exec_result.stderr),
                 Some(compilation_time), Some(execution_time))

RuntimeErrorResponse(exec_result, compilation_time, execution_time) ==
    CodeResponse(FALSE, None,
                 Some("Runtime Error:\n" \o exec_result.stderr),
                 Some(compilation_time), Some(execution_time))

SuccessResponse(exec_result, compilation_time, execution_time) ==
    CodeResponse(TRUE, Some(exec_result.stdout), None,
                 Some(compilation_time), Some(execution_time))

TimeLimitResponse ==
    CodeResponse(FALSE, None, Some("Time Limit Exceeded"), None, None)

ServerErrorResponse(e) ==
    CodeResponse(FALSE, None, Some("Server Error: " \o e.msg), None, None)

\* How the try statement is left: by a return statement or by an exception
\* that no except clause caught.
Returns(response) == Some([kind |-> "return", value |-> response])
Propagates(e) == Some([kind |-> "raise", value |-> e])

\* Variant: the handler has no "except Exception" clause.
ExceptTimeoutOnly(e) ==
    IF e.type = "TimeoutExpired" THEN Returns(TimeLimitResponse)
    ELSE Propagates(e)

\* Variant: the handler has no "except subprocess.TimeoutExpired" clause.
ExceptCatchAllOnly(e) ==
    IF e.type \in ExceptionSubclasses
    THEN Returns(ServerErrorResponse(e))
    ELSE Propagates(e)

\* The except clauses.
Except(e) ==
    IF e.type = "TimeoutExpired" THEN Returns(TimeLimitResponse)
    ELSE IF e.type \in ExceptionSubclasses
         THEN Returns(ServerErrorResponse(e))
         ELSE Propagates(e)

\* What the statements after the compile wait do with its result.
AfterCompile(compile_result, compilation_time) ==
    IF compile_result.returncode # 0
    THEN Returns(CompilationErrorResponse(compile_result, compilation_time))
    ELSE None

\* What the statements after the execute wait do with its result.
AfterExecute(exec_result, compilation_time, execution_time) ==
    IF exec_result.returncode # 0
    THEN Returns(RuntimeErrorResponse(exec_result, compilation_time,
                                      execution_time))
    ELSE Returns(SuccessResponse(exec_result, compilation_time,
                                 execution_time))

---------------------------------------------------------------------------
\* State.

VARIABLES
    pc,              \* where each handler coroutine stands
    request,         \* its request body
    unique_id,       \* its token
    compile_result,  \* the completed compile process, once there is one
    compilation_time,
    exec_result,     \* the completed program, once there is one
    proc,            \* the subprocess it waits for
    result,          \* how its try statement was left
    idx,             \* position of the finally loop in CleanupList
    trace,           \* what has happened in the invocation so far
    fs,              \* the scratch directory: path -> content
    orphans,         \* compiler processes that outlived their shell
    faults,          \* environment faults injected so far
    last             \* the invocation that returned last, as its caller saw it

vars == <<pc, request, unique_id, compile_result, exec_result, proc, result,
          idx, trace, fs, orphans, faults, last, compilation_time>>

locals == <<request, unique_id, compile_result, exec_result, proc, idx,
            compilation_time>>

\* released: times the finally block was entered; visited: paths its loop
\* has examined; gpp, exit: what the compiler and the program did, as raw
\* bytes, once they have exited within their time limit.
NoTrace ==
    [released |-> 0, visited |-> 0, spawned |-> FALSE, raised |-> None,
     compile |-> "-", execute |-> "-", gpp |-> None, exit |-> None,
     delFailed |-> {}]

Init ==
    /\ pc = [i \in Inv |-> "idle"]
    /\ request = [i \in Inv |-> None]
    /\ unique_id = [i \in Inv |-> ""]
    /\ compile_result = [i \in Inv |-> None]
    /\ compilation_time = [i \in Inv |-> None]
    /\ exec_result = [i \in Inv |-> None]
    /\ proc = [i \in Inv |-> None]
    /\ result = [i \in Inv |-> None]
    /\ idx = [i \in Inv |-> 1]
    /\ trace = [i \in Inv |-> NoTrace]
    /\ fs = [p \in Paths |-> None]
    /\ orphans = {}
    /\ faults = 0
    /\ last = None

Req(i) == request[i][1]

InFlight(i) == pc[i] # "idle"

\* Variant: the handler runs in a thread pool, as a plain def handler would.
LoopShared(i) == TRUE

\* run_code is a coroutine without a single await: once the event loop has
\* entered it, no other handler runs until it has returned.
LoopFree(i) == \A j \in Inv \ {i} : ~InFlight(j)

\* An environment fault can still be injected.
MayFail == faults < MaxFaults

\* Variant: a return that is not under the try statement; no path is
\* examined before the caller gets the outcome.
FinallyBypassed(i, outcome, tr) ==
    /\ pc' = [pc EXCEPT ![i] = "cleanup"]
    /\ result' = [result EXCEPT ![i] = outcome]
    /\ idx' = [idx EXCEPT ![i] = Len(CleanupList(unique_id[i])) + 1]
    /\ proc' = [proc EXCEPT ![i] = None]
    /\ trace' = [trace EXCEPT ![i] = tr]

\* The try statement is left with `outcome`: the finally block starts.  tr
\* is the invocation's trace up to here.
Finally(i, outcome, tr) ==
    /\ pc' = [pc EXCEPT ![i] = "cleanup"]
    /\ result' = [result EXCEPT ![i] = outcome]
    /\ idx' = [idx EXCEPT ![i] = 1]
    /\ proc' = [proc EXCEPT ![i] = None]
    /\ trace' = [trace EXCEPT ![i] = [tr EXCEPT !.released = @ + 1]]

\* A statement of the try block raises e.
Raise(i, e, tr) == Finally(i, Except(e), [tr EXCEPT !.raised = Some(e)])

\* The handler is called with a request body; the token and paths are set.
\* The call takes the first coroutine that is free.
Start(i) ==
    /\ pc[i] = "idle"
    /\ \A j \in 1..(i - 1) : InFlight(j)
    /\ LoopFree(i)
    /\ \E r \in Requests, id \in Tokens :
        /\ request' = [request EXCEPT ![i] = Some(r)]
        /\ unique_id' = [unique_id EXCEPT ![i] = id]
    /\ pc' = [pc EXCEPT ![i] = "write_cpp"]
    /\ compile_result' = [compile_result EXCEPT ![i] = None]
    /\ compilation_time' = [compilation_time EXCEPT ![i] = None]
    /\ exec_result' = [exec_result EXCEPT ![i] = None]
    /\ result' = [result EXCEPT ![i] = None]
    /\ idx' = [idx EXCEPT ![i] = 1]
    /\ trace' = [trace EXCEPT ![i] = NoTrace]
    /\ UNCHANGED <<proc, fs, orphans, faults, last>>

\* with open(cpp_file, 'w') as f: f.write(request.code)
WriteCpp(i) ==
    /\ pc[i] = "write_cpp"
    /\ fs' = [fs EXCEPT ![cpp_file(unique_id[i])] = Some(Req(i).code)]
    /\ pc' = [pc EXCEPT ![i] = "write_input"]
    /\ UNCHANGED <<locals, result, trace, orphans, faults, last>>

\* open() fails, or f.write() fails after open() has truncated the file.
WriteCppFails(i) ==
    /\ pc[i] = "write_cpp"
    /\ MayFail
    /\ faults' = faults + 1
    /\ \/ /\ Raise(i, OpenError(cpp_file(unique_id[i])), trace[i])
          /\ UNCHANGED fs
       \/ /\ Raise(i, WriteError, trace[i])
          /\ fs' = [fs EXCEPT ![cpp_file(unique_id[i])] = Some("")]
    /\ UNCHANGED <<request, unique_id, compile_result, exec_result,
                   compilation_time, orphans, last>>

\* if request.input: with open(input_file, 'w') as f: f.write(request.input)
WriteInput(i) ==
    /\ pc[i] = "write_input"
    /\ fs' = IF Req(i).input # ""
             THEN [fs EXCEPT ![input_file(unique_id[i])] = Some(Req(i).input)]
             ELSE fs
    /\ pc' = [pc EXCEPT ![i] = "compile"]
    /\ UNCHANGED <<locals, result, trace, orphans, faults, last>>

WriteInputFails(i) ==
    /\ pc[i] = "write_input"
    /\ Req(i).input # ""
    /\ MayFail
    /\ faults' = faults + 1
    /\ \/ /\ Raise(i, OpenError(input_file(unique_id[i])), trace[i])
          /\ UNCHANGED fs
       \/ /\ Raise(i, WriteError, trace[i])
          /\ fs' = [fs EXCEPT ![input_file(unique_id[i])] = Some("")]
    /\ UNCHANGED <<request, unique_id, compile_result, exec_result,
                   compilation_time, orphans, last>>

\* compile_cmd = f"g++ {cpp_file} -o {exe_file} {request.compiler_flags}"
compile_cmd(i) ==
    "g++ " \o cpp_file(unique_id[i]) \o " -o " \o exe_file(unique_id[i])
        \o " " \o Req(i).compiler_flags

\* subprocess.run(compile_cmd, shell=True, ..., timeout=30) starts the
\* shell, which starts g++ on the source file.
CompileSpawn(i) ==
    /\ pc[i] = "compile"
    /\ fs[cpp_file(unique_id[i])] # None
    /\ proc' = [proc EXCEPT ![i] =
                    Some([stage |-> "compile", shell |-> TRUE,
                          args |-> compile_cmd(i),
                          image |-> fs[cpp_file(unique_id[i])][1],
                          options |-> Sh(Req(i).compiler_flags).options,
                          runs |-> <<"g++">>
                                      \o Sh(Req(i).compiler_flags).then,
                          stdin |-> None,
                          timeout |-> Some(CompileTimeout)])]
    /\ pc' = [pc EXCEPT ![i] = "compiling"]
    /\ UNCHANGED <<request, unique_id, compile_result, exec_result, idx,
                   compilation_time, result, trace, fs, orphans, faults, last>>

\* The shell cannot be started.
CompileSpawnFails(i) ==
    /\ pc[i] = "compile"
    /\ MayFail
    /\ faults' = faults + 1
    /\ Raise(i, SpawnError, [trace[i] EXCEPT !.compile = "error"])
    /\ UNCHANGED <<request, unique_id, compile_result, exec_result,
                   compilation_time, fs, orphans, last>>

\* The compile wait expires: subprocess.run kills the shell it started and
\* raises TimeoutExpired.  g++ and its children are not the process killed;
\* they may go on and write the executable later.
CompileTimesOut(i) ==
    /\ pc[i] = "compiling"
    /\ LET p == proc[i][1]
           g == Gpp(p.image, cpp_file(unique_id[i]))
       IN /\ Expires(p.timeout, TRUE, g.secs)
          /\ \/ /\ orphans' = orphans
                /\ UNCHANGED faults
             \/ /\ g.returncode = 0
                /\ Links(p.options)
                /\ MayFail
                /\ faults' = faults + 1
                /\ orphans' = orphans \cup {[path |-> exe_file(unique_id[i]),
                                             image |-> p.image]}
    /\ Raise(i, TimeoutExpired, [trace[i] EXCEPT !.compile = "timeout"])
    /\ UNCHANGED <<request, unique_id, compile_result, exec_result,
                   compilation_time, fs, last>>

\* The shell exits in time; g++ has written the executable if it exited 0
\* and was not told to stop short of it.  The captured streams are decoded;
\* then the statements up to the check of the return code run.
CompileReturns(i) ==
    /\ pc[i] = "compiling"
    /\ LET p == proc[i][1]
           g == Gpp(p.image, cpp_file(unique_id[i]))
           sh == Shell(g, Tail(p.runs))
           done == CompletedProcess(sh)
       IN /\ ~Expires(p.timeout, TRUE, g.secs)
          /\ fs' = IF g.returncode = 0 /\ Links(p.options)
                   THEN [fs EXCEPT ![exe_file(unique_id[i])] = Some(p.image)]
                   ELSE fs
          /\ IF ~(Decodable(sh.stdout) /\ Decodable(sh.stderr))
             THEN /\ Raise(i, DecodeError,
                           [trace[i] EXCEPT !.compile = "undecodable",
                                            !.gpp = Some(g)])
                  /\ UNCHANGED <<compile_result, compilation_time>>
             ELSE /\ compile_result' = [compile_result EXCEPT ![i] = Some(done)]
                  /\ compilation_time' =
                        [compilation_time EXCEPT ![i] = Some(g.secs)]
                  /\ IF AfterCompile(done, g.secs) # None
                     THEN Finally(i, AfterCompile(done, g.secs),
                                  [trace[i] EXCEPT !.compile = "failed",
                                                   !.gpp = Some(g)])
                     ELSE /\ pc' = [pc EXCEPT ![i] = "execute"]
                          /\ proc' = [proc EXCEPT ![i] = None]
                          /\ trace' = [trace EXCEPT ![i].compile = "ok",
                                                    ![i].gpp = Some(g)]
                          /\ UNCHANGED <<result, idx>>
    /\ UNCHANGED <<request, unique_id, exec_result, orphans, faults, last>>

\* The standard input the program is started with: the input file opened
\* for reading when request.input is non-empty, the server's own otherwise.
Stdin(i) ==
    IF Req(i).input # ""
    THEN [from |-> "file", text |-> fs[input_file(unique_id[i])][1]]
    ELSE [from |-> "server", text |-> ""]

\* subprocess.run([exe_file], stdin=..., timeout=request.timeout) starts
\* the executable.
ExecSpawn(i) ==
    /\ pc[i] = "execute"
    /\ Req(i).input # "" => fs[input_file(unique_id[i])] # None
    /\ fs[exe_file(unique_id[i])] # None
    /\ proc' = [proc EXCEPT ![i] =
                    Some([stage |-> "execute", shell |-> FALSE,
                          args |-> exe_file(unique_id[i]),
                          image |-> fs[exe_file(unique_id[i])][1],
                          options |-> {},
                          runs |-> <<exe_file(unique_id[i])>>,
                          stdin |-> Some(Stdin(i)),
                          timeout |-> Req(i).timeout])]
    /\ trace' = [trace EXCEPT ![i].spawned = TRUE]
    /\ pc' = [pc EXCEPT ![i] = "executing"]
    /\ UNCHANGED <<request, unique_id, compile_result, exec_result, idx,
                   compilation_time, result, fs, orphans, faults, last>>

\* The input file cannot be opened, or the executable cannot be started.
ExecSpawnFails(i) ==
    /\ pc[i] = "execute"
    /\ LET tr == [trace[i] EXCEPT !.execute = "error"]
       IN \/ /\ Req(i).input # ""
             /\ fs[input_file(unique_id[i])] = None
             /\ Raise(i, NotFoundError(input_file(unique_id[i])), tr)
             /\ UNCHANGED faults
          \/ /\ Req(i).input # ""
             /\ fs[input_file(unique_id[i])] # None
             /\ MayFail
             /\ faults' = faults + 1
             /\ Raise(i, OpenError(input_file(unique_id[i])), tr)
          \/ /\ Req(i).input # "" => fs[input_file(unique_id[i])] # None
             /\ fs[exe_file(unique_id[i])] = None
             /\ Raise(i, NotFoundError(exe_file(unique_id[i])), tr)
             /\ UNCHANGED faults
          \/ /\ Req(i).input # "" => fs[input_file(unique_id[i])] # None
             /\ fs[exe_file(unique_id[i])] # None
             /\ MayFail
             /\ faults' = faults + 1
             /\ Raise(i, SpawnError, tr)
    /\ UNCHANGED <<request, unique_id, compile_result, exec_result,
                   compilation_time, fs, orphans, last>>

\* The programs that read their standard input.
ReadsStdin(image) == image = "echo"

\* What a started program may do.  A read of the server's own standard
\* input meets its end or blocks.
Runs(p) ==
    LET b == Program(p.image, p.stdin[1].text)
    IN IF p.stdin[1].from = "server" /\ ReadsStdin(p.image)
       THEN {b, [b EXCEPT !.halts = FALSE]}
       ELSE {b}

\* The execute wait expires: the program is killed, TimeoutExpired raised.
ExecTimesOut(i) ==
    /\ pc[i] = "executing"
    /\ \E b \in Runs(proc[i][1]) :
          Expires(proc[i][1].timeout, b.halts, b.secs)
    /\ Raise(i, TimeoutExpired, [trace[i] EXCEPT !.execute = "timeout"])
    /\ UNCHANGED <<request, unique_id, compile_result, exec_result,
                   compilation_time, fs, orphans, faults, last>>

\* The program exits in time.  The captured streams are decoded; then the
\* statements up to the return run.
ExecReturns(i) ==
    /\ pc[i] = "executing"
    /\ \E b \in Runs(proc[i][1]) :
        LET done == CompletedProcess(b)
        IN /\ b.halts
           /\ ~Expires(proc[i][1].timeout, b.halts, b.secs)
           /\ IF ~(Decodable(b.stdout) /\ Decodable(b.stderr))
              THEN /\ Raise(i, DecodeError,
                            [trace[i] EXCEPT !.execute = "undecodable",
                                             !.exit = Some(b)])
                   /\ UNCHANGED exec_result
              ELSE /\ exec_result' = [exec_result EXCEPT ![i] = Some(done)]
                   /\ Finally(i, AfterExecute(done, compilation_time[i][1],
                                              b.secs),
                              [trace[i] EXCEPT !.execute = "exited",
                                               !.exit = Some(b)])
    /\ UNCHANGED <<request, unique_id, compile_result, compilation_time,
                   fs, orphans, faults, last>>

\* Variant: a round of the loop empties the scratch directory, as
\* cleanup_old_files does at startup.
RemoveSweeps(i) ==
    /\ pc[i] = "cleanup"
    /\ idx[i] <= Len(CleanupList(unique_id[i]))
    /\ fs' = [p \in Paths |-> None]
    /\ idx' = [idx EXCEPT ![i] = @ + 1]
    /\ trace' = [trace EXCEPT ![i].visited = @ + 1]
    /\ UNCHANGED <<pc, request, unique_id, compile_result, exec_result, proc,
                   compilation_time, result, orphans, faults, last>>

\* One round of the finally loop: os.path.exists(file), then os.remove(file).
Remove(i) ==
    /\ pc[i] = "cleanup"
    /\ idx[i] <= Len(CleanupList(unique_id[i]))
    /\ fs' = [fs EXCEPT ![CleanupList(unique_id[i])[idx[i]]] = None]
    /\ idx' = [idx EXCEPT ![i] = @ + 1]
    /\ trace' = [trace EXCEPT ![i].visited = @ + 1]
    /\ UNCHANGED <<pc, request, unique_id, compile_result, exec_result, proc,
                   compilation_time, result, orphans, faults, last>>

\* Variant: os.remove is not wrapped in try/except; its exception ends the
\* loop and replaces the outcome of the try statement.
RemoveRaises(i) ==
    /\ pc[i] = "cleanup"
    /\ idx[i] <= Len(CleanupList(unique_id[i]))
    /\ fs[CleanupList(unique_id[i])[idx[i]]] # None
    /\ MayFail
    /\ faults' = faults + 1
    /\ idx' = [idx EXCEPT ![i] = Len(CleanupList(unique_id[i])) + 1]
    /\ result' = [result EXCEPT ![i] =
                    Propagates(OpenError(CleanupList(unique_id[i])[idx[i]]))]
    /\ trace' = [trace EXCEPT ![i].visited = @ + 1,
                              ![i].delFailed =
                                  @ \cup {CleanupList(unique_id[i])[idx[i]]}]
    /\ UNCHANGED <<pc, request, unique_id, compile_result, exec_result, proc,
                   compilation_time, fs, orphans, last>>

\* os.remove raises; the bare except swallows it and the loop goes on.
RemoveFails(i) ==
    /\ pc[i] = "cleanup"
    /\ idx[i] <= Len(CleanupList(unique_id[i]))
    /\ fs[CleanupList(unique_id[i])[idx[i]]] # None
    /\ MayFail
    /\ faults' = faults + 1
    /\ idx' = [idx EXCEPT ![i] = @ + 1]
    /\ trace' = [trace EXCEPT ![i].visited = @ + 1,
                              ![i].delFailed =
                                  @ \cup {CleanupList(unique_id[i])[idx[i]]}]
    /\ UNCHANGED <<pc, request, unique_id, compile_result, exec_result, proc,
                   compilation_time, result, fs, orphans, last>>

\* The files of a token that exist.
Existing(id) == {f \in {cpp_file(id), exe_file(id), input_file(id)} :
                    fs[f] # None}

\* The finally block is over: run_code hands its outcome to its caller.
Respond(i) ==
    /\ pc[i] = "cleanup"
    /\ idx[i] > Len(CleanupList(unique_id[i]))
    /\ last' = Some([request |-> Req(i), unique_id |-> unique_id[i],
                     outcome |-> result[i], left |-> Existing(unique_id[i]),
                     compile_result |-> compile_result[i],
                     exec_result |-> exec_result[i], trace |-> trace[i]])
    /\ pc' = [pc EXCEPT ![i] = "idle"]
    /\ request' = [request EXCEPT ![i] = None]
    /\ unique_id' = [unique_id EXCEPT ![i] = ""]
    /\ compile_result' = [compile_result EXCEPT ![i] = None]
    /\ compilation_time' = [compilation_time EXCEPT ![i] = None]
    /\ exec_result' = [exec_result EXCEPT ![i] = None]
    /\ result' = [result EXCEPT ![i] = None]
    /\ idx' = [idx EXCEPT ![i] = 1]
    /\ trace' = [trace EXCEPT ![i] = NoTrace]
    /\ UNCHANGED <<proc, fs, orphans, faults>>

\* A compiler that outlived its shell finishes and writes its executable.
OrphanWrites(o) ==
    /\ o \in orphans
    /\ fs' = [fs EXCEPT ![o.path] = Some(o.image)]
    /\ orphans' = orphans \ {o}
    /\ UNCHANGED <<pc, request, unique_id, compile_result, exec_result, proc,
                   compilation_time, result, idx, trace, faults, last>>

\* A compiler that outlived its shell ends without writing anything.
OrphanExits(o) ==
    /\ o \in orphans
    /\ orphans' = orphans \ {o}
    /\ UNCHANGED <<pc, request, unique_id, compile_result, exec_result, proc,
                   compilation_time, result, idx, trace, fs, faults, last>>

Step(i) ==
    \/ Start(i)
    \/ WriteCpp(i)
    \/ WriteCppFails(i)
    \/ WriteInput(i)
    \/ WriteInputFails(i)
    \/ CompileSpawn(i)
    \/ CompileSpawnFails(i)
    \/ CompileTimesOut(i)
    \/ CompileReturns(i)
    \/ ExecSpawn(i)
    \/ ExecSpawnFails(i)
    \/ ExecTimesOut(i)
    \/ ExecReturns(i)
    \/ Remove(i)
    \/ RemoveFails(i)
    \/ Respond(i)

Next ==
    \/ \E i \in Inv : Step(i)
    \/ \E o \in orphans : OrphanWrites(o)
    \/ \E o \in orphans : OrphanExits(o)

Spec == Init /\ [][Next]_vars

---------------------------------------------------------------------------
\* Properties.

\* The invocation that returned last.
Last == last[1]

\* C1: at the moment run_code returns, on every exit path, none of the three
\* files derived from the invocation's token exists in the scratch directory.
C1_CleanupComplete == last # None => Last.left = {}

IsCodeResponse(r) ==
    /\ DOMAIN r = {"success", "output", "error", "compilation_time",
                   "execution_time", "memory_used"}
    /\ r.success \in BOOLEAN
    /\ \A f \in DOMAIN r \ {"success"} : Len(r[f]) <= 1

\* C3: whatever fault is raised in a stage (file write error, spawn error,
\* subprocess timeout, unreadable input file), run_code returns a well-formed
\* CodeResponse and no exception reaches its caller.
C3_NoFaultEscapes ==
    /\ \A i \in Inv :
        trace[i].raised # None =>
            /\ result[i] # None
            /\ result[i][1].kind = "return"
            /\ IsCodeResponse(result[i][1].value)
    /\ last # None =>
        /\ Last.outcome[1].kind = "return"
        /\ IsCodeResponse(Last.outcome[1].value)

C3_Witness ==
    /\ last # None
    /\ Last.trace.raised # None
    /\ Last.trace.raised[1].type = "OSError"
    /\ Last.outcome[1].kind = "return"
    /\ ~Last.outcome[1].value.success

\* C4: every invocation eventually returns: an invocation in flight can
\* always take a step, and each subprocess it waits for has a timeout.
C4_Terminates ==
    \A i \in Inv :
        /\ InFlight(i) => ENABLED Step(i)
        /\ proc[i] # None => proc[i][1].timeout # None

\* C5: when the compiler exits non-zero or exceeds its time limit the
\* program is never started, and a non-zero exit yields the failure result
\* that carries the compiler's stderr and the compile time.
C5_CompileShortCircuits ==
    last # None =>
        /\ Last.trace.compile = "timeout" => ~Last.trace.spawned
        /\ Last.trace.gpp # None /\ Last.trace.gpp[1].returncode # 0 =>
            /\ ~Last.trace.spawned
            /\ Last.outcome =
                 Returns(CodeResponse(FALSE, None,
                     Some("Compilation Error:\n"
                              \o Text(Last.trace.gpp[1].stderr)),
                     Some(Last.trace.gpp[1].secs), None))

\* C6: when the program exits within the time limit the exit status alone
\* decides: status 0 gives success with the captured stdout as output,
\* whatever stderr holds; any other status gives a failure whose error
\* carries the captured stderr.
C6_ExitCodeDecides ==
    last # None /\ Last.trace.exit # None =>
        LET b == Last.trace.exit[1]
            r == Last.outcome[1].value
        IN /\ Last.outcome[1].kind = "return"
           /\ b.returncode = 0 =>
                /\ r.success
                /\ r.output = Some(Text(b.stdout))
           /\ b.returncode # 0 =>
                /\ ~r.success
                /\ r.error = Some("Runtime Error:\n" \o Text(b.stderr))

\* C7: when the program exceeds the execute timeout the result is a failure
\* with the generic time-limit message and no output.
C7_ExecTimeoutIsFailure ==
    last # None /\ Last.trace.execute = "timeout" =>
        /\ Last.outcome[1].kind = "return"
        /\ ~Last.outcome[1].value.success
        /\ Last.outcome[1].value.output = None
        /\ Last.outcome[1].value.error = Some("Time Limit Exceeded")

C7_Witness ==
    /\ last # None
    /\ Last.trace.execute = "timeout"
    /\ Last.trace.spawned
    /\ Last.request.code = "loop"

\* How an invocation with trace tr ended.
Ending(tr) ==
    CASE tr.compile = "timeout" -> "compile timeout"
      [] tr.execute = "timeout" -> "execute timeout"
      [] tr.compile = "failed"  -> "compilation failed"
      [] OTHER                  -> "other"

\* C8: the result of a compile timeout differs from the result of an execute
\* timeout and from the result of a failed compilation.
C8_CompileTimeoutDistinguished ==
    \A i \in Inv :
        /\ last # None
        /\ pc[i] = "cleanup"
        /\ Ending(Last.trace) = "compile timeout"
        /\ Ending(trace[i]) \in {"execute timeout", "compilation failed"}
        => result[i] # Last.outcome

AloneExecute(r, t) ==
    LET p == [image |-> r.code, timeout |-> r.timeout,
              stdin |-> Some(IF r.input # ""
                             THEN [from |-> "file", text |-> r.input]
                             ELSE [from |-> "server", text |-> ""])]
    IN {Except(TimeoutExpired) : b \in {c \in Runs(p) :
                Expires(p.timeout, c.halts, c.secs)}}
       \cup {Except(DecodeError) : b \in {c \in Runs(p) :
                /\ c.halts /\ ~Expires(p.timeout, c.halts, c.secs)
                /\ ~(Decodable(c.stdout) /\ Decodable(c.stderr))}}
       \cup {AfterExecute(CompletedProcess(b),
                          Gpp(r.code, cpp_file(t)).secs, b.secs) :
                b \in {c \in Runs(p) :
                    /\ c.halts /\ ~Expires(p.timeout, c.halts, c.secs)
                    /\ Decodable(c.stdout) /\ Decodable(c.stderr)}}

AloneCompile(r, t) ==
    LET g == Gpp(r.code, cpp_file(t))
        sh == Shell(g, Sh(r.compiler_flags).then)
    IN IF Expires(Some(CompileTimeout), TRUE, g.secs)
       THEN {Except(TimeoutExpired)}
       ELSE IF ~(Decodable(sh.stdout) /\ Decodable(sh.stderr))
       THEN {Except(DecodeError)}
       ELSE IF AfterCompile(CompletedProcess(sh), g.secs) # None
       THEN {AfterCompile(CompletedProcess(sh), g.secs)}
       ELSE IF ~(g.returncode = 0 /\ Links(Sh(r.compiler_flags).options))
       THEN {Except(NotFoundError(exe_file(t)))}
       ELSE AloneExecute(r, t)

AloneFaults(r) ==
    {Except(e) : e \in {WriteError, SpawnError}
                        \cup {OpenError(cpp_file(t)) : t \in Tokens}
                        \cup {OpenError(input_file(t)) : t \in Tokens}}

Alone(r) == UNION {AloneCompile(r, t) : t \in Tokens} \cup AloneFaults(r)

\* C10: the result of every invocation is a result its request has when it
\* runs alone, and no two invocations are at work in the scratch directory
\* at once.
C10_Isolated ==
    /\ last # None => Last.outcome \in Alone(Last.request)
    /\ \A i, j \in Inv : i # j => ~(InFlight(i) /\ InFlight(j))

\* What a caller reads of an outcome: the success flag, the output and the
\* error text.
Content(outcome) ==
    <<outcome[1].value.success, outcome[1].value.output,
      outcome[1].value.error>>

\* C11: served twice in sequence, with no fault injected and with compiler
\* and program ending the same way both times, one request yields the same
\* success flag, the same output and the same error text; the text does not
\* depend on the token or on the paths.
C11_Idempotent ==
    \A i \in Inv :
        /\ last # None
        /\ pc[i] = "cleanup"
        /\ faults = 0
        /\ Req(i) = Last.request
        /\ trace[i].compile = Last.trace.compile
        /\ trace[i].execute = Last.trace.execute
        => Content(result[i]) = Content(Last.outcome)

\* C12: when the wait of a stage has ended by its timeout, every process
\* started for that stage is gone: none is left running that can still write
\* into the scratch directory.
C12_NoOrphans == orphans = {}

\* The error texts of an internal error that embed a path of token id.
TextsWithPath(id) ==
    {"Server Error: " \o e.msg :
        e \in UNION {{OpenError(p), NotFoundError(p)} :
                        p \in {cpp_file(id), exe_file(id), input_file(id)}}}

\* C13: when an exception was raised in an invocation, the error text of
\* its result contains no path built from the invocation's token.
C13_ErrorsSanitized ==
    last # None /\ Last.trace.raised # None =>
        \A text \in TextsWithPath(Last.unique_id) :
            Last.outcome[1].value.error # Some(text)

\* C14: a program is started with a standard input that delivers exactly the
\* request's input when that is non-empty, and with an empty one of its own,
\* never the server's, when the input is empty.
C14_InputStreamDiscipline ==
    \A i \in Inv :
        pc[i] = "executing" =>
            LET stdin == proc[i][1].stdin[1]
            IN IF Req(i).input # ""
               THEN stdin.from = "file" /\ stdin.text = Req(i).input
               ELSE stdin.from # "server"

\* C15: a program that writes more to its standard output than the cap (any
\* cap below FloodLen chunks) is not reported as a success, and what was
\* captured of its output is not the whole of what it wrote.
C15_OutputCapped ==
    last # None /\ Last.trace.exit # None
                /\ Len(Last.trace.exit[1].stdout) >= FloodLen =>
        /\ ~Last.outcome[1].value.success
        /\ \A done \in {Last.exec_result[k] : k \in 1..Len(Last.exec_result)} :
              done.stdout # Text(Last.trace.exit[1].stdout)

\* C16: the compiler and the program are each started from an argument
\* vector, never through a shell, and whatever the compiler flags hold, the
\* compile stage starts no command but the compiler.
C16_NoShell ==
    \A i \in Inv :
        proc[i] # None =>
            /\ ~proc[i][1].shell
            /\ proc[i][1].stage = "compile" => proc[i][1].runs = <<"g++">>

\* The outcome the try statement of an invocation determined, from the
\* exception raised in it or else from the results of its stages.
Primary(tr, compile_result_, exec_result_) ==
    IF tr.raised # None THEN Except(tr.raised[1])
    ELSE IF exec_result_ # None
         THEN AfterExecute(exec_result_[1], tr.gpp[1].secs, tr.exit[1].secs)
         ELSE AfterCompile(compile_result_[1], tr.gpp[1].secs)

\* C17: a failed deletion in the release loop is swallowed: the loop still
\* visits all three paths, and the outcome handed to the caller is the one the
\* try statement determined, returned and not raised.
C17_CleanupNeverMasks ==
    /\ \A i \in Inv :
        pc[i] = "cleanup" /\ trace[i].delFailed # {} =>
            result[i] = Primary(trace[i], compile_result[i], exec_result[i])
    /\ last # None /\ Last.trace.delFailed # {} =>
        /\ Last.trace.visited = Len(CleanupList(Last.unique_id))
        /\ Last.outcome[1].kind = "return"
        /\ Last.outcome =
             Primary(Last.trace, Last.compile_result, Last.exec_result)

C17_Witness ==
    /\ last # None
    /\ Last.trace.delFailed = {cpp_file(Last.unique_id)}
    /\ Last.trace.visited = 3
    /\ Last.outcome[1].value.success
    /\ Last.left = {cpp_file(Last.unique_id)}

\* C18: every result is exactly one variant.  A success carries the output,
\* no error and both times; a failure carries an error and no output: with
\* the compile time only when the compilation failed, with both times when
\* the program exited non-zero, with neither time after a timeout or an
\* internal error.
C18_OneVariant ==
    last # None =>
        LET r == Last.outcome[1].value
            tr == Last.trace
        IN /\ Last.outcome[1].kind = "return"
           /\ IsCodeResponse(r)
           /\ r.success =>
                /\ r.output # None /\ r.error = None
                /\ r.compilation_time # None /\ r.execution_time # None
           /\ ~r.success => r.error # None /\ r.output = None
           /\ tr.compile = "failed" =>
                /\ ~r.success
                /\ r.compilation_time # None /\ r.execution_time = None
           /\ tr.raised = None /\ tr.exit # None
                               /\ tr.exit[1].returncode # 0 =>
                /\ ~r.success
                /\ r.compilation_time # None /\ r.execution_time # None
           /\ tr.raised # None =>
                /\ ~r.success
                /\ r.compilation_time = None /\ r.execution_time = None

C18_Witness ==
    /\ last # None
    /\ Last.trace.raised = None
    /\ Last.trace.exit # None
    /\ Last.trace.exit[1].returncode # 0
    /\ Last.trace.exit[1].stdout # <<>>
    /\ ~Last.outcome[1].value.success
    /\ Last.outcome[1].value.execution_time # None

\* C19: the token is allocated without creating a file; while an invocation
\* is in flight, the input file of its token exists only if its request's
\* input is non-empty, the executable of its token exists only once its
\* compile stage has succeeded, and its program reads the input file only
\* when the invocation wrote one.
C19_Lifecycle ==
    \A i \in Inv :
        InFlight(i) =>
            /\ pc[i] = "write_cpp" => Existing(unique_id[i]) = {}
            /\ fs[input_file(unique_id[i])] # None => Req(i).input # ""
            /\ fs[exe_file(unique_id[i])] # None => trace[i].compile = "ok"
            /\ pc[i] = "executing" /\ proc[i][1].stdin[1].from = "file" =>
                    Req(i).input # ""

\* The three paths derived from a token.
OwnPaths(id) == {cpp_file(id), exe_file(id), input_file(id)}

\* C20: a round of the release loop of an invocation changes no file but the
\* three derived from the invocation's own token: every other file of the
\* scratch directory is after the round what it was before.
C20_ReleaseFrame ==
    [][\A i \in Inv :
          pc[i] = "cleanup" /\ idx'[i] = idx[i] + 1 =>
              \A p \in Paths \ OwnPaths(unique_id[i]) : fs'[p] = fs[p]]_vars

C20_Witness ==
    \E i \in Inv :
        /\ pc[i] = "cleanup"
        /\ idx[i] > Len(CleanupList(unique_id[i]))
        /\ trace[i].delFailed = {}
        /\ Existing(unique_id[i]) = {}
        /\ \E p \in Paths \ OwnPaths(unique_id[i]) : fs[p] # None

====
